---------------------------- MODULE Spec2Model ----------------------------
(***************************************************************************)
(* Model of src/src/align/mod.rs: the Step cell and its equality/ordering, *)
(* the PWAlignment result, PWAlignment::distance() and the Debug rendering *)
(* of a PWAlignment.                                                       *)
(*                                                                         *)
(* A String is modelled as the sequence of its symbols, each a one-letter  *)
(* TLA+ string.  Residue symbols are single-byte (ASCII), so the bytes of  *)
(* as_bytes(), the chars of chars() and len() all index the same sequence. *)
(***************************************************************************)
EXTENDS Integers, Sequences, FiniteSets, TLC

VARIABLES
    self,        \* the PWAlignment the operations are called on
    pc,          \* position of the running call
    i,           \* distance(): index of the next position of the loop
    residues,    \* distance(): local accumulator
    identities,  \* distance(): local accumulator
    ret,         \* value returned by the call (NoValue until it returns)
    step,        \* Step comparisons: the receiver
    other        \* Step comparisons: the argument

vars == <<self, pc, i, residues, identities, ret, step, other>>

---------------------------------------------------------------------------
(* Bounds of the model *)

\* longest aligned string drawn for distance()
MaxLen == 3

\* longest original sequence drawn for the Debug rendering
MaxOrig == 2

\* largest coordinate of the Steps drawn for the comparisons
MaxIdx == 1

---------------------------------------------------------------------------
(* Symbols and strings *)

\* b'-' of the total-gap test
Gap == "-"

Residues == {"A", "C"}

StrsOver(alphabet, n) == UNION {[1..k -> alphabet] : k \in 0..n}

AlignedStrs == StrsOver(Residues \cup {Gap}, MaxLen)

\* the aligned pairs of test_alignment_distance and test_alignment_distance2
TestPair1 == << <<"A", "C", "C", "G", "T">>, <<"A", "G", "-", "C", "T">> >>

TestPair2 == << <<"A", "C", "T", "G", "T">>, <<"A", "C", "A", "G", "T">> >>

AlignedPairs == (AlignedStrs \X AlignedStrs) \cup {TestPair1, TestPair2}

\* Vec::new(), the grid of the two distance tests
EmptyGrid == << >>

PWAlignment(grid, a, b, a_orig, b_orig, score) ==
    [grid |-> grid, a |-> a, b |-> b,
     a_orig |-> a_orig, b_orig |-> b_orig, score |-> score]

---------------------------------------------------------------------------
(* f32 values.  A finite value is m * 2^(-e) with 2^23 <= |m| < 2^24, or   *)
(* m = 0 and e = 0; the accumulators of distance() hold small even         *)
(* integers, which f32 represents exactly, and are kept as integers.       *)

\* significand bits of f32
F32Mantissa == 24

RECURSIVE Pow2(_)
Pow2(k) == IF k = 0 THEN 1 ELSE 2 * Pow2(k - 1)

F32Finite(m, e) == [kind |-> "finite", m |-> m, e |-> e]

F32NaN == [kind |-> "nan", m |-> 0, e |-> 0]

F32Inf(sign) == [kind |-> "inf", m |-> sign, e |-> 0]

F32Zero == F32Finite(0, 0)

\* the f32 literal 0.5 of test_alignment_distance
F32Half == F32Finite(Pow2(F32Mantissa - 1), F32Mantissa)

Abs(x) == IF x < 0 THEN -x ELSE x

\* least e with n * 2^e >= d * 2^23, for n > 0 and d > 0
RECURSIVE ScaleExp(_, _, _)
ScaleExp(n, d, e) ==
    IF n * Pow2(e) >= d * Pow2(F32Mantissa - 1) THEN e ELSE ScaleExp(n, d, e + 1)

\* n / d rounded to nearest, ties to even
RoundHalfEven(n, d) ==
    LET q == n \div d
        r == n % d
    IN  IF 2 * r > d \/ (2 * r = d /\ q % 2 = 1) THEN q + 1 ELSE q

\* the f32 quotient of two integers held exactly in f32 (IEEE 754 division)
F32Div(n, d) ==
    IF d = 0
    THEN IF n = 0 THEN F32NaN ELSE F32Inf(IF n < 0 THEN -1 ELSE 1)
    ELSE IF n = 0 THEN F32Zero
    ELSE LET sg == IF (n < 0) = (d < 0) THEN 1 ELSE -1
             e  == ScaleExp(Abs(n), Abs(d), 0)
             m  == RoundHalfEven(Abs(n) * Pow2(e), Abs(d))
         IN  IF m = Pow2(F32Mantissa)
             THEN F32Finite(sg * Pow2(F32Mantissa - 1), e - 1)
             ELSE F32Finite(sg * m, e)

---------------------------------------------------------------------------
(* Step and its OrderedFloat<f32> value.  A value is an integer-valued     *)
(* float or NaN; OrderedFloat makes NaN equal to itself and greater than   *)
(* every number.                                                           *)

OF(v) == [nan |-> FALSE, v |-> v]

OFNaN == [nan |-> TRUE, v |-> 0]

None == << >>

Some(x) == <<x>>

\* Step::from(i, j, val)
StepFrom(r, c, v) == [val |-> OF(v), i |-> r, j |-> c, next |-> None]

---------------------------------------------------------------------------
(* PWAlignment::distance() *)

NoValue == [kind |-> "none"]

\* the placeholder operand of the specifications that compare no Steps
NoStep == StepFrom(0, 0, 0)

\* `*c1 == b'-' && c2 == b'-'`: the position is a gap in both strings
\* (variants: a gap on either side; a gap on the top side)
IsAnyGap(c1, c2) == c1 = Gap \/ c2 = Gap

IsTopGap(c1, c2) == c1 = Gap

IsTotalGap(c1, c2) == c1 = Gap /\ c2 = Gap

\* `b[i]`: the index is within the slice
\* (variant: no check, the read past the end yields a gap)
InBoundsUnchecked(b, k) == TRUE

InBounds(b, k) == k < Len(b)

\* `residues += 2.0` behind the total-gap `continue`
NextResidues(r, c1, c2) == IF IsTotalGap(c1, c2) THEN r ELSE r + 2

\* `if *c1 == c2 { identities += 2.0 }` behind the total-gap `continue`
\* (variant: += 1.0)
NextIdentitiesByOne(id, c1, c2) ==
    IF IsTotalGap(c1, c2) THEN id ELSE IF c1 = c2 THEN id + 1 ELSE id

NextIdentities(id, c1, c2) ==
    IF IsTotalGap(c1, c2) THEN id ELSE IF c1 = c2 THEN id + 2 ELSE id

\* `(residues - identities) / residues`
Quotient(r, id) == F32Div(r - id, r)

\* the symbol at 0-based index k; the code never reads past the end
At(b, k) == IF k < Len(b) THEN b[k + 1] ELSE Gap

\* distance() as a function of the alignment: the value returned, or
\* "panic" when the loop indexes b out of range
RECURSIVE DistanceLoop(_, _, _, _, _)
DistanceLoop(a, b, k, r, id) ==
    IF k = Len(a) THEN Quotient(r, id)
    ELSE IF ~InBounds(b, k) THEN [kind |-> "panic"]
    ELSE DistanceLoop(a, b, k + 1,
                      NextResidues(r, a[k + 1], At(b, k)),
                      NextIdentities(id, a[k + 1], At(b, k)))

distance(p) == DistanceLoop(p.a, p.b, 0, 0, 0)

\* lines 99-102: bind b, zero the accumulators, start the iterator
DistanceEnter ==
    /\ pc = "call"
    /\ pc' = "loop"
    /\ i' = 0
    /\ residues' = 0
    /\ identities' = 0
    /\ UNCHANGED <<self, ret, step, other>>

\* line 104 with i >= b.len(): the index panics, the call returns nothing
DistanceIndexPanic ==
    /\ pc = "loop"
    /\ i < Len(self.a)
    /\ ~InBounds(self.b, i)
    /\ pc' = "panic"
    /\ UNCHANGED <<self, i, residues, identities, ret, step, other>>

\* lines 103-113: one iteration of the loop
DistanceIterate ==
    /\ pc = "loop"
    /\ i < Len(self.a)
    /\ InBounds(self.b, i)
    /\ residues' = NextResidues(residues, self.a[i + 1], At(self.b, i))
    /\ identities' = NextIdentities(identities, self.a[i + 1], At(self.b, i))
    /\ i' = i + 1
    /\ UNCHANGED <<self, pc, ret, step, other>>

\* line 115: the iterator is exhausted, the quotient is returned
DistanceReturn ==
    /\ pc = "loop"
    /\ i = Len(self.a)
    /\ ret' = Quotient(residues, identities)
    /\ pc' = "done"
    /\ UNCHANGED <<self, i, residues, identities, step, other>>

\* the alignments distance() is called on, built as the tests build them
Init ==
    /\ \E pair \in AlignedPairs :
         self = PWAlignment(EmptyGrid, pair[1], pair[2], << >>, << >>, 0)
    /\ pc = "call"
    /\ i = 0
    /\ residues = 0
    /\ identities = 0
    /\ ret = NoValue
    /\ step = NoStep
    /\ other = NoStep

Next ==
    \/ DistanceEnter
    \/ DistanceIndexPanic
    \/ DistanceIterate
    \/ DistanceReturn

Spec == Init /\ [][Next]_vars

---------------------------------------------------------------------------
(* Display and Debug renderings of a PWAlignment *)

NL == "\n"

Space == " "

Bar == "|"

\* the minimum field width of `{: <3}`
PadWidth == 3

Spaces(n) == [k \in 1..n |-> Space]

\* `{: <3}`: left-aligned, padded with spaces to the width, never cut
PadLeftAligned(s) ==
    IF Len(s) >= PadWidth THEN s ELSE s \o Spaces(PadWidth - Len(s))

DigitChars == <<"0", "1", "2", "3", "4", "5", "6", "7", "8", "9">>

RECURSIVE FmtNat(_)
FmtNat(n) ==
    IF n < 10 THEN <<DigitChars[n + 1]>>
    ELSE FmtNat(n \div 10) \o <<DigitChars[(n % 10) + 1]>>

\* Display of an OrderedFloat<f32> holding an integer value or NaN
FmtVal(x) ==
    IF x.nan THEN <<"N", "a", "N">>
    ELSE IF x.v < 0 THEN <<"-">> \o FmtNat(-x.v) ELSE FmtNat(x.v)

RECURSIVE Flatten(_)
Flatten(ss) == IF ss = << >> THEN << >> ELSE Head(ss) \o Flatten(Tail(ss))

\* Display: `write!(f, "{}\n{}", self.a, self.b)`
DisplayFmt(p) == p.a \o <<NL>> \o p.b

\* `format!("{}\n{}\n", self.a, self.b)`
Header(p) == p.a \o <<NL>> \o p.b \o <<NL>>

\* the i == 0 branch: "   |    |", one ` {: <3}|` per char of a_orig, "\n"
HeaderRow(p) ==
    <<Space, Space, Space, Bar, Space, Space, Space, Space, Bar>>
    \o Flatten([k \in 1..Len(p.a_orig) |->
                   <<Space>> \o PadLeftAligned(<<p.a_orig[k]>>) \o <<Bar>>])
    \o <<NL>>

\* the first column of grid row r: "   |", or `{: <3}|` of
\* b_orig.chars().nth(r - 1)
\* (variant: the char of the aligned b)
RowLabelOfAligned(p, r) ==
    IF r = 0 THEN <<Space, Space, Space, Bar>>
    ELSE PadLeftAligned(<<p.b[r]>>) \o <<Bar>>

RowLabel(p, r) ==
    IF r = 0 THEN <<Space, Space, Space, Bar>>
    ELSE PadLeftAligned(<<p.b_orig[r]>>) \o <<Bar>>

\* one ` {: <3}|` per Step of the row, of its val
\* (variant: a Step that has a backpointer is marked)
RowCellsMarked(row) ==
    Flatten([k \in 1..Len(row) |->
                <<Space>> \o PadLeftAligned(FmtVal(row[k].val)
                    \o (IF row[k].next = None THEN << >> ELSE <<"*">>))
                \o <<Bar>>])

RowCells(row) ==
    Flatten([k \in 1..Len(row) |->
                <<Space>> \o PadLeftAligned(FmtVal(row[k].val)) \o <<Bar>>])

\* the loop over 0..b_orig.len() + 1; `self.grid[i]` panics past the grid
RECURSIVE DebugLoop(_, _, _)
DebugLoop(p, r, result) ==
    IF r = Len(p.b_orig) + 1 THEN [kind |-> "text", text |-> result]
    ELSE IF r >= Len(p.grid) THEN [kind |-> "panic"]
    ELSE DebugLoop(p, r + 1,
                   result
                   \o (IF r = 0 THEN HeaderRow(p) ELSE << >>)
                   \o RowLabel(p, r)
                   \o RowCells(p.grid[r + 1])
                   \o <<NL>>)

\* Debug: the joined pieces, or a panic and nothing written
DebugFmt(p) == DebugLoop(p, 0, Header(p))

DisplayCall ==
    /\ pc = "call"
    /\ ret' = [kind |-> "text", text |-> DisplayFmt(self)]
    /\ pc' = "displayed"
    /\ UNCHANGED <<self, i, residues, identities, step, other>>

DebugCall ==
    /\ pc = "call"
    /\ DebugFmt(self).kind = "text"
    /\ ret' = DebugFmt(self)
    /\ pc' = "rendered"
    /\ UNCHANGED <<self, i, residues, identities, step, other>>

DebugPanic ==
    /\ pc = "call"
    /\ DebugFmt(self).kind = "panic"
    /\ pc' = "panic"
    /\ UNCHANGED <<self, i, residues, identities, ret, step, other>>

\* grids of Step::from(i, j, val) cells, val = c0 + ci * i + cj * j
Fills == {<<0, -1, -1>>, <<0, 1, 2>>, <<9, 1, 0>>, <<-100, 50, 7>>}

GridOf(rows, cols, fill) ==
    [r \in 1..rows |->
        [c \in 1..cols |->
            StepFrom(r - 1, c - 1,
                     fill[1] + fill[2] * (r - 1) + fill[3] * (c - 1))]]

\* the backpointers a traceback direction leaves: None on the boundary it
\* cannot leave, else Some of the predecessor's coordinates
Dirs == {"none", "diag", "up", "left"}

PredOf(r, c, d) ==
    IF d = "diag" /\ r > 0 /\ c > 0 THEN Some(<<r - 1, c - 1>>)
    ELSE IF d = "up" /\ r > 0 THEN Some(<<r - 1, c>>)
    ELSE IF d = "left" /\ c > 0 THEN Some(<<r, c - 1>>)
    ELSE None

Retarget(grid, d) ==
    [r \in 1..Len(grid) |->
        [c \in 1..Len(grid[r]) |->
            [grid[r][c] EXCEPT !.next = PredOf(r - 1, c - 1, d)]]]

\* the gap-padded pairs a traceback may leave for two original sequences
Alignments(a_orig, b_orig) ==
    { <<a_orig, b_orig>>,
      <<a_orig \o <<Gap>>, <<Gap>> \o b_orig>>,
      <<<<Gap>> \o a_orig, b_orig \o <<Gap>>>> }

OrigStrs == StrsOver(Residues, MaxOrig)

\* the alignment of test_alignment_debug
TestGrid ==
    << <<StepFrom(0, 0, 0), StepFrom(0, 1, -1), StepFrom(0, 2, -2), StepFrom(0, 3, -3)>>,
       <<StepFrom(1, 0, -1), StepFrom(1, 1, 0), StepFrom(1, 2, 0), StepFrom(1, 3, 1)>>,
       <<StepFrom(2, 0, -2), StepFrom(2, 1, 0), StepFrom(2, 2, 1), StepFrom(2, 3, 1)>> >>

TestAlignment ==
    PWAlignment(TestGrid, <<"A", "G", "C">>, <<"C", "G">>,
                <<"A", "G", "C">>, <<"C", "G">>, 0)

\* the text test_alignment_debug expects
TestDebugText == <<
    "A", "G", "C", "\n", "C", "G", "\n", " ", " ", " ", "|", " ",
    " ", " ", " ", "|", " ", "A", " ", " ", "|", " ", "G", " ",
    " ", "|", " ", "C", " ", " ", "|", "\n", " ", " ", " ", "|",
    " ", "0", " ", " ", "|", " ", "-", "1", " ", "|", " ", "-",
    "2", " ", "|", " ", "-", "3", " ", "|", "\n", "C", " ", " ",
    "|", " ", "-", "1", " ", "|", " ", "0", " ", " ", "|", " ",
    "0", " ", " ", "|", " ", "1", " ", " ", "|", "\n", "G", " ",
    " ", "|", " ", "-", "2", " ", "|", " ", "0", " ", " ", "|",
    " ", "1", " ", " ", "|", " ", "1", " ", " ", "|", "\n" >>

\* the alignments rendered: a grid of (len(b_orig) + 1) x (len(a_orig) + 1)
\* cells as an algorithm run leaves it, or the Vec::new() of the tests
DebugAlignments ==
    UNION { { PWAlignment(g, ab[1], ab[2], ao, bo, 0) :
                ab \in Alignments(ao, bo),
                g \in {EmptyGrid}
                      \cup {Retarget(GridOf(Len(bo) + 1, Len(ao) + 1, f), d) :
                               f \in Fills, d \in Dirs} } :
            ao \in OrigStrs, bo \in OrigStrs }

InitDebug ==
    /\ self \in DebugAlignments \cup {TestAlignment}
    /\ pc = "call"
    /\ i = 0
    /\ residues = 0
    /\ identities = 0
    /\ ret = NoValue
    /\ step = NoStep
    /\ other = NoStep

NextDebug ==
    \/ DisplayCall
    \/ DebugCall
    \/ DebugPanic

SpecDebug == InitDebug /\ [][NextDebug]_vars

---------------------------------------------------------------------------
(* Properties of distance() *)

SameLen == Len(self.a) = Len(self.b)

\* the positions of a, b that are not a gap in both
Compared(a, b) == {k \in 1..Len(a) : ~(a[k] = Gap /\ b[k] = Gap)}

\* the compared positions whose two symbols differ
Differing(a, b) == {k \in Compared(a, b) : a[k] # b[k]}

OneSidedGaps(a, b) == {k \in Compared(a, b) : a[k] = Gap \/ b[k] = Gap}

\* x is the f32 nearest to n / d (ties to even), for 0 <= n <= d, 0 < d
NearestF32(x, n, d) ==
    /\ x.kind = "finite"
    /\ IF n = 0 THEN x = F32Zero
       ELSE /\ Pow2(F32Mantissa - 1) <= x.m
            /\ x.m < Pow2(F32Mantissa)
            /\ LET err == Abs(x.m * d - n * Pow2(x.e))
               IN  2 * err <= d /\ (2 * err = d => x.m % 2 = 0)

\* 0 <= x <= 1
InUnitInterval(x) == x.kind = "finite" /\ 0 <= x.m /\ x.m <= Pow2(x.e)

\* the f32 literal 0.2 of test_alignment_distance2: 0x3E4CCCCD
F32OneFifth == F32Finite(13421773, 26)

C2_TestPairIsOneHalf ==
    (pc = "done" /\ <<self.a, self.b>> = TestPair1) => ret = F32Half

\* C3: when no position is left after excluding the doubly-gapped ones,
\* distance() reports EmptyComparison and returns no NaN or Inf.
C3_EmptyComparisonReported ==
    (pc = "done" /\ SameLen /\ Compared(self.a, self.b) = {}) =>
        ret.kind = "EmptyComparison"

\* C4: with equal-length aligned strings distance() returns a value in
\* [0, 1] or an explicit failure, with 0 <= identities <= residues at the
\* end of the loop; never an undefined number.
C4_DistanceInUnitIntervalOrFailure ==
    (pc = "done" /\ SameLen) =>
        /\ 0 <= identities /\ identities <= residues
        /\ InUnitInterval(ret) \/ ret.kind = "EmptyComparison"

Swapped(p) == [p EXCEPT !.a = p.b, !.b = p.a]

\* C5: with equal-length aligned strings, distance() of (a, b) and of
\* (b, a) have the same outcome (the same value, or both undefined).
C5_DistanceSymmetric ==
    (pc = "done" /\ SameLen) => ret = distance(Swapped(self))

C5_Witness ==
    /\ pc = "done"
    /\ SameLen
    /\ self.a # self.b
    /\ OneSidedGaps(self.a, self.b) # {}
    /\ ret.kind = "finite"

GapFree(a) == \A k \in 1..Len(a) : a[k] # Gap

Truncated(p) == [p EXCEPT !.b = SubSeq(p.b, 1, Len(p.a))]

\* C10: distance() checks no lengths.  With b shorter than a the call
\* panics at the first position i = len(b) and returns nothing; with b
\* at least as long as a it returns the value of b truncated to len(a)
\* and reports no InconsistentAlignment.
C10_LengthMismatchUnchecked ==
    /\ pc = "panic" =>
          Len(self.b) < Len(self.a) /\ i = Len(self.b) /\ ret = NoValue
    /\ (pc = "loop" /\ Len(self.b) < Len(self.a)) => i <= Len(self.b)
    /\ pc = "done" =>
          /\ Len(self.b) >= Len(self.a)
          /\ ret.kind # "InconsistentAlignment"
          /\ ret = distance(Truncated(self))
          /\ LET bt == Truncated(self).b
                 N  == Cardinality(Compared(self.a, bt))
                 D  == Cardinality(Differing(self.a, bt))
             IN  IF N = 0 THEN ret = F32NaN ELSE NearestF32(ret, D, N)

C10_Witness ==
    /\ pc = "panic"
    /\ i = Len(self.b)
    /\ i >= 1
    /\ residues > identities
    /\ ret = NoValue

---------------------------------------------------------------------------
(* Properties of the Debug rendering *)

\* the fields of s between occurrences of sep
RECURSIVE SplitFrom(_, _, _, _)
SplitFrom(s, sep, k, cur) ==
    IF k > Len(s) THEN <<cur>>
    ELSE IF s[k] = sep THEN <<cur>> \o SplitFrom(s, sep, k + 1, << >>)
    ELSE SplitFrom(s, sep, k + 1, Append(cur, s[k]))

SplitOn(s, sep) == SplitFrom(s, sep, 1, << >>)

IsBlank(s) == \A k \in 1..Len(s) : s[k] = Space

RECURSIVE TrimLeft(_)
TrimLeft(s) ==
    IF s # << >> /\ Head(s) = Space THEN TrimLeft(Tail(s)) ELSE s

RECURSIVE TrimRight(_)
TrimRight(s) ==
    IF s # << >> /\ s[Len(s)] = Space
    THEN TrimRight(SubSeq(s, 1, Len(s) - 1)) ELSE s

Trim(s) == TrimRight(TrimLeft(s))

DigitOf(c) == CHOOSE d \in 0..9 : DigitChars[d + 1] = c

IsDigit(c) == \E d \in 0..9 : DigitChars[d + 1] = c

RECURSIVE ParseNat(_, _)
ParseNat(s, acc) ==
    IF s = << >> THEN acc ELSE ParseNat(Tail(s), 10 * acc + DigitOf(Head(s)))

IsNumeral(s) ==
    LET d == IF s # << >> /\ Head(s) = "-" THEN Tail(s) ELSE s
    IN  d # << >> /\ \A k \in 1..Len(d) : IsDigit(d[k])

\* the value a printed cell reads as
ParseVal(s) ==
    IF s = <<"N", "a", "N">> THEN OFNaN
    ELSE IF Head(s) = "-" THEN OF(-ParseNat(Tail(s), 0))
    ELSE OF(ParseNat(s, 0))

\* C7: when the grid has len(b_orig) + 1 rows the rendering is produced;
\* after the two lines of the aligned strings, the header row has two blank
\* fields and then exactly the symbols of a_orig in order; exactly
\* len(b_orig) + 1 grid lines follow; the first has a blank label, the k-th
\* after it is labelled with the k-th symbol of b_orig; each lists the
\* values of its grid row in column order.  test_alignment_debug's
\* alignment renders as the test expects.
C7_DebugLayout ==
    /\ pc = "panic" => Len(self.grid) # Len(self.b_orig) + 1
    /\ pc = "rendered" =>
         LET lines == SplitOn(ret.text, NL)
             hdr   == SplitOn(lines[3], Bar)
         IN  /\ Len(self.grid) >= Len(self.b_orig) + 1
             /\ Len(lines) = Len(self.b_orig) + 5
             /\ lines[Len(lines)] = << >>
             /\ Len(hdr) = Len(self.a_orig) + 3
             /\ hdr[1] = Spaces(PadWidth)
             /\ hdr[2] = Spaces(PadWidth + 1)
             /\ \A k \in 1..Len(self.a_orig) :
                  Trim(hdr[k + 2]) = <<self.a_orig[k]>>
             /\ hdr[Len(hdr)] = << >>
             /\ \A r \in 0..Len(self.b_orig) :
                  LET f == SplitOn(lines[r + 4], Bar)
                  IN  /\ Trim(f[1]) =
                           (IF r = 0 THEN << >> ELSE <<self.b_orig[r]>>)
                      /\ Len(f) = Len(self.grid[r + 1]) + 2
                      /\ f[Len(f)] = << >>
                      /\ \A c \in 1..Len(self.grid[r + 1]) :
                           /\ IsNumeral(Trim(f[c + 1]))
                           /\ ParseVal(Trim(f[c + 1]))
                                = self.grid[r + 1][c].val
             /\ self = TestAlignment => ret.text = TestDebugText

C7_Witness ==
    /\ pc = "rendered"
    /\ Len(self.a_orig) = 2
    /\ Len(self.b_orig) = 2
    /\ self.a_orig[1] # self.a_orig[2]
    /\ self.b_orig[1] # self.b_orig[2]
    /\ self.b # self.b_orig
    /\ self.grid[1][1].val = OF(-100)
    /\ Len(SplitOn(ret.text, NL)) = 7

Scores == {0, 7}

\* the alignments that share p's original sequences and grid values and
\* differ in backpointers, score and aligned strings
Variants(p) ==
    { [p EXCEPT !.grid = Retarget(p.grid, d), !.score = sc,
                !.a = ab[1], !.b = ab[2]] :
        d \in Dirs, sc \in Scores, ab \in Alignments(p.a_orig, p.b_orig) }

\* the text after the two lines of the aligned strings
GridPart(p, text) == SubSeq(text, Len(p.a) + Len(p.b) + 3, Len(text))

\* C8 (as stated): two alignments with the same a_orig, b_orig and grid
\* values render identically whatever their backpointers, score and
\* aligned strings a and b.
C8_RenderingIgnoresAlignedStrings ==
    /\ pc = "panic" =>
         \A q \in Variants(self) : DebugFmt(q).kind = "panic"
    /\ pc = "rendered" =>
         \A q \in Variants(self) : DebugFmt(q) = ret

\* C8 (amended): two alignments with the same a_orig, b_orig and grid
\* values both fail or both render; the renderings start with the lines of
\* their own aligned strings a and b, agree in everything after those two
\* lines whatever the backpointers, score and aligned strings, and are
\* identical when a and b agree too.
C8_GridPartIgnoresTraceback ==
    /\ pc = "panic" =>
         \A q \in Variants(self) : DebugFmt(q).kind = "panic"
    /\ pc = "rendered" =>
         \A q \in Variants(self) :
            /\ DebugFmt(q).kind = "text"
            /\ SubSeq(DebugFmt(q).text, 1, Len(q.a) + Len(q.b) + 2)
                 = q.a \o <<NL>> \o q.b \o <<NL>>
            /\ GridPart(q, DebugFmt(q).text) = GridPart(self, ret.text)
            /\ (q.a = self.a /\ q.b = self.b) => DebugFmt(q) = ret

C8_Witness ==
    /\ pc = "rendered"
    /\ Len(self.grid) >= 2
    /\ Len(self.grid[2]) >= 2
    /\ self.grid[2][2].next = Some(<<0, 0>>)
    /\ \E q \in Variants(self) :
         /\ q.grid[2][2].next = Some(<<1, 0>>)
         /\ q.score # self.score
         /\ q.a # self.a
         /\ GridPart(q, DebugFmt(q).text) = GridPart(self, ret.text)

---------------------------------------------------------------------------
(* Equality and ordering of Step *)

\* OrderedFloat's PartialEq: NaN equals NaN, numbers compare by value
OFEq(x, y) == IF x.nan THEN y.nan ELSE ~y.nan /\ x.v = y.v

\* OrderedFloat's Ord: numbers by value, NaN equal to NaN and greatest
OFCmp(x, y) ==
    IF ~x.nan /\ ~y.nan
    THEN IF x.v < y.v THEN "Less"
         ELSE IF x.v > y.v THEN "Greater" ELSE "Equal"
    ELSE IF x.nan THEN IF y.nan THEN "Equal" ELSE "Greater"
    ELSE "Less"

\* OrderedFloat's PartialOrd: Some(self.cmp(other))
OFPartialCmp(x, y) == Some(OFCmp(x, y))

\* PartialEq for Step: i, j and val
\* (variant: the derived PartialEq, which compares every field)
StepEqDerived(s, t) ==
    s.i = t.i /\ s.j = t.j /\ OFEq(s.val, t.val) /\ s.next = t.next

StepEq(s, t) == s.i = t.i /\ s.j = t.j /\ OFEq(s.val, t.val)

\* Ord for Step: `self.val.cmp(&other.val)`
StepCmp(s, t) == OFCmp(s.val, t.val)

\* PartialOrd for Step: `self.val.partial_cmp(&other.val)`
StepPartialCmp(s, t) == OFPartialCmp(s.val, t.val)

Vals == {OF(0), OF(1), OFNaN}

Idx == 0..MaxIdx

Steps ==
    { [val |-> v, i |-> r, j |-> c, next |-> n] :
        v \in Vals, r \in Idx, c \in Idx,
        n \in {None} \cup {Some(rc) : rc \in Idx \X Idx} }

EqCall ==
    /\ pc = "call"
    /\ ret' = [kind |-> "bool", value |-> StepEq(step, other)]
    /\ pc' = "eq"
    /\ UNCHANGED <<self, i, residues, identities, step, other>>

CmpCall ==
    /\ pc = "call"
    /\ ret' = [kind |-> "ordering", value |-> StepCmp(step, other)]
    /\ pc' = "cmp"
    /\ UNCHANGED <<self, i, residues, identities, step, other>>

PartialCmpCall ==
    /\ pc = "call"
    /\ ret' = [kind |-> "option", value |-> StepPartialCmp(step, other)]
    /\ pc' = "partial_cmp"
    /\ UNCHANGED <<self, i, residues, identities, step, other>>

InitStep ==
    /\ step \in Steps
    /\ other \in Steps
    /\ self = PWAlignment(EmptyGrid, << >>, << >>, << >>, << >>, 0)
    /\ pc = "call"
    /\ i = 0
    /\ residues = 0
    /\ identities = 0
    /\ ret = NoValue

NextStep ==
    \/ EqCall
    \/ CmpCall
    \/ PartialCmpCall

SpecStep == InitStep /\ [][NextStep]_vars

\* the order of two values: numbers by size, NaN equal to NaN and above
\* every number
ValueOrder(x, y) ==
    CASE x.nan /\ y.nan -> "Equal"
      [] x.nan /\ ~y.nan -> "Greater"
      [] ~x.nan /\ y.nan -> "Less"
      [] OTHER -> IF x.v = y.v THEN "Equal"
                  ELSE IF x.v < y.v THEN "Less" ELSE "Greater"

\* C9: s == t iff s.i == t.i, s.j == t.j and s.val == t.val, the
\* backpointer not compared; cmp(s, t) is the comparison of s.val with
\* t.val whatever the coordinates and backpointers; partial_cmp(s, t) is
\* Some(cmp(s, t)).
C9_StepEqualityAndOrder ==
    /\ pc = "eq" =>
         ret.value = (/\ step.i = other.i
                      /\ step.j = other.j
                      /\ step.val = other.val)
    /\ pc = "cmp" =>
         /\ ret.value = ValueOrder(step.val, other.val)
         /\ \A s \in Steps :
              /\ s.val = step.val => StepCmp(s, other) = ret.value
              /\ s.val = other.val => StepCmp(step, s) = ret.value
    /\ pc = "partial_cmp" => ret.value = Some(StepCmp(step, other))

C9_Witness ==
    /\ pc = "eq"
    /\ ret.value = TRUE
    /\ step.next # other.next
    /\ step.val = OFNaN

====
